---------------------------- MODULE Spec2Model ----------------------------
(***************************************************************************)
(* Scoring-and-deduplication pipeline of the parallel text processor:      *)
(* chunker, rule evaluator, scorer, content-hash deduplication, the        *)
(* thread-pool scheduler (Checker.run_checks) and the SQLite store.        *)
(*                                                                         *)
(* Texts are sequences of one-character strings.  Scores are integers in   *)
(* units of 1/10000 (ScoreUnit), so 2.0 is 20000 and 0.0004 is 4; a score  *)
(* rounded to 3 decimal places is a multiple of 10 units.                  *)
(***************************************************************************)
EXTENDS Integers, Sequences, FiniteSets, TLC

(***************************************************************************)
(* Bounds of the model.                                                    *)
(***************************************************************************)
MaxWords == 2
MaxGroup == 2
MaxWorkers == 2
MaxRuns == 2
MaxClock == 1
MaxRules == 2
MaxBreakWords == 4
MaxBreakGroup == 3
MaxSaves == 3
MaxLimit == 2
MaxThreads == 2
MaxConns == 3

\* one score unit is 1/ScoreUnit: 3 decimal places plus one guard digit
ScoreUnit == 10000

(***************************************************************************)
(* Characters and strings (Python str methods used by the code).           *)
(***************************************************************************)
IsSpace(c) == c \in {" ", "\n"}

IsUpper(c) == c \in {"A", "B"}

IsAlpha(c) == c \in {"a", "b", "A", "B"}

\* \w of the re module: letters, digits, underscore
IsWordChar(c) == IsAlpha(c)

LowerChar(c) == CASE c = "A" -> "a" [] c = "B" -> "b" [] OTHER -> c

\* str.lower()
LowerStr(t) == [i \in 1..Len(t) |-> LowerChar(t[i])]

\* needle in hay
Contains(hay, needle) ==
    \E i \in 0..(Len(hay) - Len(needle)) : SubSeq(hay, i + 1, i + Len(needle)) = needle

\* str.startswith
StartsWith(t, p) == Len(p) <= Len(t) /\ SubSeq(t, 1, Len(p)) = p

\* str.endswith
EndsWith(t, p) == Len(p) <= Len(t) /\ SubSeq(t, Len(t) - Len(p) + 1, Len(t)) = p

RECURSIVE LStrip(_)
LStrip(t) == IF t # <<>> /\ IsSpace(Head(t)) THEN LStrip(Tail(t)) ELSE t

RECURSIVE RStrip(_)
RStrip(t) == IF t # <<>> /\ IsSpace(t[Len(t)]) THEN RStrip(SubSeq(t, 1, Len(t) - 1)) ELSE t

\* str.strip()
Strip(t) == RStrip(LStrip(t))

\* re.sub(r'\s+', ' ', text): every run of whitespace becomes one space
RECURSIVE CollapseWs(_)
CollapseWs(t) ==
    IF t = <<>> THEN <<>>
    ELSE IF IsSpace(Head(t)) THEN <<" ">> \o CollapseWs(LStrip(Tail(t)))
    ELSE <<Head(t)>> \o CollapseWs(Tail(t))

\* length of the leading run of non-whitespace characters
RECURSIVE TokenLen(_)
TokenLen(t) == IF t = <<>> \/ IsSpace(Head(t)) THEN 0 ELSE 1 + TokenLen(Tail(t))

\* str.split() without arguments
RECURSIVE SplitWs(_)
SplitWs(t) ==
    LET u == LStrip(t)
        n == TokenLen(u)
    IN  IF u = <<>> THEN <<>>
        ELSE <<SubSeq(u, 1, n)>> \o SplitWs(SubSeq(u, n + 1, Len(u)))

\* sep.join(words)
RECURSIVE JoinWith(_, _)
JoinWith(words, sep) ==
    IF words = <<>> THEN <<>>
    ELSE IF Len(words) = 1 THEN words[1]
    ELSE words[1] \o sep \o JoinWith(Tail(words), sep)

(***************************************************************************)
(* app/text_processing/text_breaker.py                                     *)
(***************************************************************************)
CleanText(text) == Strip(CollapseWs(text))

\* range(0, n, step) raises ValueError for step 0
BreakRaises(text, group_size) == CleanText(text) # <<>> /\ group_size = 0

\* mutant: only the full groups are counted, the remainder is left out
RangeLenFullGroups(n, step) == IF step > 0 THEN n \div step ELSE 0

\* len(range(0, n, step)) for step # 0
RangeLen(n, step) == IF step > 0 THEN (n + step - 1) \div step ELSE 0

BreakTextIntoGroups(text, group_size) ==
    LET t == CleanText(text)
        words == SplitWs(t)
        n == Len(words)
        lo(k) == (k - 1) * group_size + 1
        hi(k) == IF k * group_size < n THEN k * group_size ELSE n
    IN  IF t = <<>> THEN <<>>
        ELSE [k \in 1..RangeLen(n, group_size) |-> JoinWith(SubSeq(words, lo(k), hi(k)), <<" ">>)]

(***************************************************************************)
(* app/utils.py and the json module.                                       *)
(* A digest is the text under a tag: SHA-256 is taken as injective.        *)
(* A str holding the JSON encoding of x is "str" around x; a Python list   *)
(* is "list" around its elements.  dumps wraps, loads unwraps one layer,   *)
(* so decoding a value encoded twice yields a str, not the value.          *)
(***************************************************************************)
ComputeTextHash(text) == <<"sha256", text>>

PyList(s) == [t |-> "list", v |-> s]

PyNone == [t |-> "None", v |-> <<>>]

JsonDumps(x) == [t |-> "str", v |-> x]

JsonLoads(s) == s.v

(***************************************************************************)
(* JSON values of rule parameters.  A number carries its value n (a score  *)
(* or threshold in score units, a count as it is); "str" is a string that  *)
(* is not a numeral ('abc'); "null" is JSON null.                          *)
(***************************************************************************)
Num(n) == [t |-> "num", n |-> n]

BadStr == [t |-> "str", n |-> 0]

JNull == [t |-> "null", n |-> 0]

\* bool(v)
Truthy(v) == (v.t = "num" /\ v.n # 0) \/ v.t = "str"

\* float(v) and int(v): the value, or the exception raised
ToNumber(v) ==
    CASE v.t = "num" -> [exc |-> "", n |-> v.n]
      [] v.t = "str" -> [exc |-> "ValueError: could not convert 'abc'", n |-> 0]
      [] OTHER -> [exc |-> "TypeError: argument must be a string or a number", n |-> 0]

\* a JSON object is a record of its keys; any other array element is not a dict
IsDict(rule) == "nondict" \notin DOMAIN rule

\* dict.get(key, default)
Get(rule, key, default) == IF key \in DOMAIN rule THEN rule[key] ELSE default

(***************************************************************************)
(* The elements a rules file may hold (load_rules accepts any JSON array). *)
(***************************************************************************)
RulePool ==
    << [id |-> "kw", type |-> "keyword_any", keywords |-> << <<"B">>, <<"a">> >>, score |-> Num(20000)],
       [id |-> "len", type |-> "length_min", min_chars |-> Num(0), score |-> Num(4)],
       [id |-> "badscore", type |-> "keyword_any", keywords |-> << <<"a">> >>, score |-> BadStr],
       [nondict |-> "int"],
       [id |-> "unk", type |-> "sentiment", score |-> Num(10000)],
       [id |-> "up", type |-> "uppercase_ratio", threshold |-> Num(5000), score |-> Num(30000)],
       [id |-> "upbad", type |-> "uppercase_ratio", threshold |-> BadStr, score |-> Num(30000)],
       [id |-> "re", type |-> "regex_match", pattern |-> <<"a">>, score |-> Num(-15000)],
       [id |-> "rebad", type |-> "regex_match", pattern |-> <<"(">>, score |-> JNull],
       [id |-> "phrase", type |-> "contains_phrase", phrase |-> <<"A", " ", "b">>, score |-> Num(10000)],
       [id |-> "wc", type |-> "word_count_min", min_words |-> Num(2), score |-> Num(10000)],
       [id |-> "pre", type |-> "starts_with", prefix |-> <<"a">>, score |-> Num(10000)],
       [id |-> "suf", type |-> "ends_with", suffix |-> <<"!">>, score |-> Num(10000)],
       [id |-> "notb", type |-> "not_contains", word |-> <<"B">>, score |-> Num(10000)],
       [type |-> "length_min", min_chars |-> BadStr, score |-> Num(10000)],
       [id |-> "unkbad", type |-> "sentiment", score |-> BadStr],
       [id |-> "wcbad", type |-> "word_count_min", min_words |-> BadStr, score |-> Num(10000)] >>

\* the rule list a sequence of pool indices stands for
RulesOf(idxs) == [i \in 1..Len(idxs) |-> RulePool[idxs[i]]]

(***************************************************************************)
(* app/checker/rules.py: evaluate_rule.  The result is (s, reason), or the *)
(* exception raised (exc # "").                                            *)
(***************************************************************************)
NoReason == <<"None">>

Ret(s, reason) == [exc |-> "", s |-> s, reason |-> reason]

Raise(msg) == [exc |-> msg, s |-> 0, reason |-> NoReason]

\* float(rule.get("score", 0) or 0)
RuleScore(rule) ==
    LET v == Get(rule, "score", Num(0))
    IN  ToNumber(IF Truthy(v) THEN v ELSE Num(0))

\* try: conv(rule.get(key, default)) except Exception: fallback
ParamOr(rule, key, default, fallback) ==
    LET r == ToNumber(Get(rule, key, Num(default)))
    IN  IF r.exc = "" THEN r.n ELSE fallback

\* mutant: the keyword loop runs to its end, the last match wins
RECURSIVE LastKeyword(_, _)
LastKeyword(kws, lowered) ==
    IF kws = <<>> THEN <<>>
    ELSE LET rest == LastKeyword(Tail(kws), lowered)
         IN  IF rest # <<>> THEN rest
             ELSE IF Head(kws) # <<>> /\ Contains(lowered, LowerStr(Head(kws))) THEN Head(kws)
             ELSE <<>>

\* the first keyword of kws that is non-empty and occurs in lowered, or <<>>
RECURSIVE FirstKeyword(_, _)
FirstKeyword(kws, lowered) ==
    IF kws = <<>> THEN <<>>
    ELSE IF Head(kws) # <<>> /\ Contains(lowered, LowerStr(Head(kws))) THEN Head(kws)
    ELSE FirstKeyword(Tail(kws), lowered)

\* a/b rounded to the nearest integer (b > 0); the inputs of the model give no ties
RoundDiv(a, b) == (2 * a + b) \div (2 * b)

\* re.compile fails (re.error) on an unbalanced parenthesis
RegexInvalid(pattern) == \E i \in 1..Len(pattern) : pattern[i] = "("

\* re.search(pattern, t, flags=re.IGNORECASE) for a pattern of literal characters
RegexSearch(pattern, t) == Contains(LowerStr(t), LowerStr(pattern))

EvalKeywordAny(rule, t, score) ==
    LET kw == FirstKeyword(Get(rule, "keywords", <<>>), LowerStr(t))
    IN  IF kw # <<>> THEN Ret(score, <<"found_keyword", kw>>) ELSE Ret(0, NoReason)

EvalUppercaseRatio(rule, t, score) ==
    LET letters == {i \in 1..Len(t) : IsAlpha(t[i])}
        ups == Cardinality({i \in letters : IsUpper(t[i])})
        n == Cardinality(letters)
        thresh == ParamOr(rule, "threshold", ScoreUnit, ScoreUnit)
    IN  IF n = 0 THEN Ret(0, NoReason)
        ELSE IF ups * ScoreUnit >= thresh * n
             THEN Ret(score, <<"uppercase_ratio", RoundDiv(ups * 100, n)>>)
             ELSE Ret(0, NoReason)

EvalLengthMin(rule, t, score) ==
    IF Len(t) >= ParamOr(rule, "min_chars", 0, 0)
    THEN Ret(score, <<"length", Len(t)>>) ELSE Ret(0, NoReason)

EvalRegexMatch(rule, t, score) ==
    LET pattern == Get(rule, "pattern", <<>>)
    IN  IF pattern = <<>> THEN Ret(0, NoReason)
        ELSE IF ~RegexInvalid(pattern) /\ RegexSearch(pattern, t)
             THEN Ret(score, <<"regex_match", pattern>>)
             ELSE Ret(0, NoReason)

EvalContainsPhrase(rule, t, score) ==
    LET phrase == LowerStr(Get(rule, "phrase", <<>>))
    IN  IF phrase # <<>> /\ Contains(LowerStr(t), phrase)
        THEN Ret(score, <<"found_phrase", phrase>>) ELSE Ret(0, NoReason)

EvalWordCountMin(rule, t, score) ==
    IF Len(SplitWs(t)) >= ParamOr(rule, "min_words", 0, 0)
    THEN Ret(score, <<"word_count", Len(SplitWs(t))>>) ELSE Ret(0, NoReason)

EvalStartsWith(rule, t, score) ==
    LET prefix == Get(rule, "prefix", <<>>)
    IN  IF prefix # <<>> /\ StartsWith(t, prefix)
        THEN Ret(score, <<"starts_with", prefix>>) ELSE Ret(0, NoReason)

EvalEndsWith(rule, t, score) ==
    LET suffix == Get(rule, "suffix", <<>>)
    IN  IF suffix # <<>> /\ EndsWith(t, suffix)
        THEN Ret(score, <<"ends_with", suffix>>) ELSE Ret(0, NoReason)

EvalNotContains(rule, t, score) ==
    LET word == LowerStr(Get(rule, "word", <<>>))
    IN  IF word # <<>> /\ ~Contains(LowerStr(t), word)
        THEN Ret(score, <<"not_contains", word>>) ELSE Ret(0, NoReason)

EvaluateRule(rule, t) ==
    IF ~IsDict(rule) THEN Raise("AttributeError: object has no attribute 'get'")
    ELSE LET typ == Get(rule, "type", "None")
             sc == RuleScore(rule)
         IN  IF sc.exc # "" THEN Raise(sc.exc)
             ELSE CASE typ = "keyword_any" -> EvalKeywordAny(rule, t, sc.n)
                    [] typ = "uppercase_ratio" -> EvalUppercaseRatio(rule, t, sc.n)
                    [] typ = "length_min" -> EvalLengthMin(rule, t, sc.n)
                    [] typ = "regex_match" -> EvalRegexMatch(rule, t, sc.n)
                    [] typ = "contains_phrase" -> EvalContainsPhrase(rule, t, sc.n)
                    [] typ = "word_count_min" -> EvalWordCountMin(rule, t, sc.n)
                    [] typ = "starts_with" -> EvalStartsWith(rule, t, sc.n)
                    [] typ = "ends_with" -> EvalEndsWith(rule, t, sc.n)
                    [] typ = "not_contains" -> EvalNotContains(rule, t, sc.n)
                    [] OTHER -> Ret(0, NoReason)


(***************************************************************************)
(* app/checker/checker2.py: count_words and score_text.                    *)
(***************************************************************************)
\* len(re.findall(r"\w+", text)): the maximal runs of word characters
CountWords(text) ==
    Cardinality({i \in 1..Len(text) : IsWordChar(text[i]) /\ (i = 1 \/ ~IsWordChar(text[i - 1]))})

\* rule.get('id')
RuleId(rule) == Get(rule, "id", "None")

\* the except clause of the rule loop formats rule.get('id') itself
HandlerRaises(rule) == ~IsDict(rule)

\* mutant: the loop without the "if s:" guard, a detail for every rule evaluated
RECURSIVE ScoreLoopDetailPerRule(_, _, _, _)
ScoreLoopDetailPerRule(rules, text, k, acc) ==
    IF k > Len(rules) THEN acc
    ELSE LET rule == rules[k]
             ev == EvaluateRule(rule, text)
         IN  IF ev.exc = ""
             THEN ScoreLoopDetailPerRule(rules, text, k + 1,
                    [acc EXCEPT !.raw_score = @ + ev.s,
                                !.details = Append(@, [rule_id |-> RuleId(rule),
                                                       score |-> ev.s,
                                                       reason |-> ev.reason])])
             ELSE IF HandlerRaises(rule)
             THEN [acc EXCEPT !.exc = "AttributeError: object has no attribute 'get'"]
             ELSE ScoreLoopDetailPerRule(rules, text, k + 1,
                    [acc EXCEPT !.details = Append(@, [rule_id |-> RuleId(rule),
                                                       score |-> 0,
                                                       reason |-> <<"error", ev.exc>>])])

\* the rule loop from rule k on; acc = [exc, raw_score, details]
RECURSIVE ScoreLoop(_, _, _, _)
ScoreLoop(rules, text, k, acc) ==
    IF k > Len(rules) THEN acc
    ELSE LET rule == rules[k]
             ev == EvaluateRule(rule, text)
         IN  IF ev.exc = ""
             THEN ScoreLoop(rules, text, k + 1,
                    IF ev.s # 0
                    THEN [acc EXCEPT !.raw_score = @ + ev.s,
                                     !.details = Append(@, [rule_id |-> RuleId(rule),
                                                            score |-> ev.s,
                                                            reason |-> ev.reason])]
                    ELSE acc)
             ELSE IF HandlerRaises(rule)
             THEN [acc EXCEPT !.exc = "AttributeError: object has no attribute 'get'"]
             ELSE ScoreLoop(rules, text, k + 1,
                    [acc EXCEPT !.details = Append(@, [rule_id |-> RuleId(rule),
                                                       score |-> 0,
                                                       reason |-> <<"error", ev.exc>>])])

\* round(x, 3) of x = num/den score units (den > 0): a multiple of 10 units
Round3(num, den) == 10 * RoundDiv(num, 10 * den)

\* mutant: the fallback branch returns before the rounding
NormalizeFallbackUnrounded(raw_score, wc) ==
    IF wc > 0 THEN Round3(raw_score * 100, wc) ELSE raw_score

\* mutant: the raw score divided by the word count, not by word_count / 100
NormalizePerWord(raw_score, wc) ==
    IF wc > 0 THEN Round3(raw_score, wc) ELSE Round3(raw_score, 1)

\* raw_score / (wc / 100) when wc > 0, else raw_score; then rounded
Normalize(raw_score, wc) ==
    IF wc > 0 THEN Round3(raw_score * 100, wc) ELSE Round3(raw_score, 1)

\* the Check Result of one item, or the exception score_text raises (exc # "")
ScoreText(rules, item) ==
    LET text == item.text
        acc == ScoreLoop(rules, text, 1, [exc |-> "", raw_score |-> 0, details |-> <<>>])
        wc == CountWords(text)
    IN  [exc |-> acc.exc,
         uid |-> item.uid,
         text |-> text,
         raw_score |-> acc.raw_score,
         score |-> IF acc.exc = "" THEN Normalize(acc.raw_score, wc) ELSE 0,
         details |-> acc.details,
         word_count |-> wc]


(***************************************************************************)
(* app/storage/storage.py: the checks table is the sequence of its rows in *)
(* insertion order.                                                        *)
(***************************************************************************)
\* mutant: the lookup sees only the newest row
ExistsHashNewestOnly(rs, text_hash) == rs # <<>> /\ rs[Len(rs)].text_hash = text_hash

\* SELECT 1 FROM checks WHERE text_hash = ? LIMIT 1
ExistsHash(rs, text_hash) == \E i \in 1..Len(rs) : rs[i].text_hash = text_hash

\* mutant: INTEGER PRIMARY KEY without AUTOINCREMENT, one more than the largest
\* id in the table (the id of a deleted row is handed out again)
NextRowIdOfTable(rs, nxt) == IF rs = <<>> THEN 1 ELSE rs[Len(rs)].id + 1

\* id INTEGER PRIMARY KEY AUTOINCREMENT: one more than the largest id the table
\* ever held (sqlite_sequence), which nxt carries
NextRowId(rs, nxt) == nxt

\* mutant: the stored digest is taken over the text with a line end appended
SaveCheckRowHashesLine(id, uid, text, score, details, now) ==
    [id |-> id, uid |-> uid, text |-> text, score |-> score,
     details |-> JsonDumps(details), ts |-> now,
     text_hash |-> ComputeTextHash(text \o <<"\n">>)]

\* the row save_check inserts: it serialises details and hashes the text itself
SaveCheckRow(id, uid, text, score, details, now) ==
    [id |-> id,
     uid |-> uid,
     text |-> text,
     score |-> score,
     details |-> JsonDumps(details),
     ts |-> now,
     text_hash |-> ComputeTextHash(text)]

\* json.loads(r[4]) if r[4] else None (a stored JSON text is never empty)
DecodeDetails(r) == IF r.details.t = "str" THEN JsonLoads(r.details) ELSE PyNone

\* the dict query_checks and get_check_by_uid build from a row
RowRecord(r) ==
    [id |-> r.id, uid |-> r.uid, text |-> r.text, score |-> r.score,
     details |-> DecodeDetails(r), ts |-> r.ts, text_hash |-> r.text_hash]

\* min_score / max_score: None, or a number
NoBound == [t |-> "None", n |-> 0]

\* the WHERE clause query_checks builds: both bounds inclusive, None no filter
Matches(r, min_score, max_score) ==
    /\ (min_score.t # "None" => r.score >= min_score.n)
    /\ (max_score.t # "None" => r.score <= max_score.n)

\* ORDER BY ts DESC LIMIT ? over the matching rows, as positions in the table:
\* ts has a resolution of one tick and SQL leaves the order of rows of equal ts
\* open, so every order that descends in ts is an outcome
QueryOrders(rs, min_score, max_score, limit) ==
    LET M == {i \in 1..Len(rs) : Matches(rs[i], min_score, max_score)}
        m == IF limit < Cardinality(M) THEN limit ELSE Cardinality(M)
    IN  {q \in [1..m -> M] :
            /\ \A a, b \in 1..m : a < b => q[a] # q[b] /\ rs[q[a]].ts >= rs[q[b]].ts
            /\ \A i \in M : (\A a \in 1..m : q[a] # i) =>
                              \A a \in 1..m : rs[i].ts <= rs[q[a]].ts}

\* what query_checks may return: the list of records
QueryChecksResults(rs, min_score, max_score, limit) ==
    {[k \in 1..Len(q) |-> RowRecord(rs[q[k]])] : q \in QueryOrders(rs, min_score, max_score, limit)}

\* what get_check_by_uid may return: <<>> for None, else the one record;
\* WHERE uid = ? ORDER BY ts DESC LIMIT 1
GetCheckByUidResults(rs, uid) ==
    LET U == {i \in 1..Len(rs) : rs[i].uid = uid}
    IN  IF U = {} THEN {<<>>}
        ELSE {<<RowRecord(rs[i])>> : i \in {j \in U : \A k \in U : rs[k].ts <= rs[j].ts}}

\* mutant: the DELETE stops at the first matching row
DeleteRowsOldestMatch(rs, uid) ==
    LET U == {i \in 1..Len(rs) : rs[i].uid = uid}
    IN  IF U = {} THEN rs
        ELSE LET f == CHOOSE i \in U : \A k \in U : i <= k
             IN  SubSeq(rs, 1, f - 1) \o SubSeq(rs, f + 1, Len(rs))

\* DELETE FROM checks WHERE uid = ?
DeleteRows(rs, uid) ==
    LET keep(r) == r.uid # uid
    IN  SelectSeq(rs, keep)

(***************************************************************************)
(* Inputs of the pipeline.                                                 *)
(***************************************************************************)
Tokens == {<<"a">>, <<"!">>}

WordSeqs == UNION {[1..n -> Tokens] : n \in 0..MaxWords}

\* the words as a raw text: single spaces, or stray whitespace around and between
RawText(ws, messy) ==
    IF messy THEN <<"\n">> \o JoinWith(ws, <<" ", "\n">>) \o <<" ">>
    ELSE JoinWith(ws, <<" ">>)

\* text_or_texts as a list: one str, the empty list, or a list of two one-word texts
TextInputs ==
    {<<RawText(ws, m)>> : ws \in WordSeqs, m \in BOOLEAN}
    \cup {<<>>}
    \cup {<<w1, w2>> : w1 \in Tokens, w2 \in Tokens}

GroupSizes == (-1)..MaxGroup

\* rules_path: None, a file holding a JSON array, no file, a file that is not
\* JSON, a file holding a JSON object
RulePaths == {"None", "rules.json", "odd.json", "missing.json", "broken.json", "object.json"}

\* mutant: load_rules without the isinstance check
LoadRulesRaisesUnlessArrayUnchecked(path) == path \in {"missing.json", "broken.json"}

\* os.path.exists fails (FileNotFoundError), json.load fails (JSONDecodeError),
\* or the data is not a list (ValueError): each propagates to the caller
LoadRulesRaises(path) == path \in {"missing.json", "broken.json", "object.json"}

\* load_rules(path) for a file that holds a JSON array: the array, as pool indices
LoadRules(path) == IF path = "rules.json" THEN <<1, 2>> ELSE <<4>>

\* every array of at most MaxRules pool elements
RuleSets == UNION {[1..n -> 1..Len(RulePool)] : n \in 0..MaxRules}

\* item texts the scorer is tried on
ScoreTexts ==
    { <<>>, <<"!">>, <<"a">>, <<"B">>, <<"A", " ", "b">>, <<"a", "b", "!">>,
      <<"!", " ", "!">>, <<"b", " ", "a", " ", "!">>, <<"a", "!", "B">>,
      <<"a", " ", "b", " ", "a">> }

(***************************************************************************)
(* app/text_processing/parallel_break_loader.py: _make_items_from_texts    *)
(***************************************************************************)
\* a uid is (t_index, c_index, nonce): the nonce stands for the uuid4 suffix
ItemsOfText(text, t_index, group_size, nonce) ==
    LET chunks == BreakTextIntoGroups(text, group_size)
    IN  [c \in 1..Len(chunks) |->
            [uid |-> <<t_index, c - 1, nonce>>,
             text |-> chunks[c],
             text_hash |-> ComputeTextHash(chunks[c])]]

RECURSIVE MakeItemsFrom(_, _, _, _)
MakeItemsFrom(texts, t, group_size, nonce) ==
    IF t > Len(texts) THEN <<>>
    ELSE ItemsOfText(texts[t], t - 1, group_size, nonce)
            \o MakeItemsFrom(texts, t + 1, group_size, nonce)

MakeItemsFromTexts(texts, group_size, nonce) == MakeItemsFrom(texts, 1, group_size, nonce)

MakeItemsRaises(texts, group_size) == \E t \in 1..Len(texts) : BreakRaises(texts[t], group_size)


(***************************************************************************)
(* State.                                                                  *)
(***************************************************************************)
VARIABLES
    rows,          \* the checks table: rows in insertion order
    nextId,        \* the AUTOINCREMENT counter: the id of the next row
    clock,         \* CURRENT_TIMESTAMP at the last insert
    pc,            \* where the caller of parallel_process_text is
    runNo,         \* pipeline runs started so far
    save,          \* the run's save argument
    storage,       \* the run's storage: "None" or "store"
    rulesPath,     \* the run's rules_path
    maxWorkers,    \* the run's max_workers
    items,         \* the chunk items of the run
    dedupIdx,      \* position of the dedup loop in items
    uniqueItems,   \* unique_items
    skippedCount,  \* skipped_count
    futures,       \* state of each submitted future, by position in uniqueItems
    cur,           \* the future the as_completed loop is handling (0: none)
    results,       \* the results list of run_checks
    rows0,         \* history: the table when the run started
    inserted,      \* history: ids of the rows the run has inserted
    saveAttempts,  \* history: calls of save_check per future
    failed,        \* history: futures whose scoring or save raised
    prevStored,    \* history: the chunk texts of the last run, if it stored them all
    rerun,         \* history: this run repeats, with save, the chunks prevStored holds
    scPc,          \* scorer check: "off", "ready", "scored"
    scRules,       \* scorer check: the rule set, as pool indices
    scText,        \* scorer check: the item text
    scOut,         \* scorer check: what score_text gave
    brPc,          \* chunker check: "off", "ready", "done"
    brText,        \* chunker check: the raw text
    brSize,        \* chunker check: group_size
    brOut,         \* chunker check: the chunks returned, or the exception raised
    idLog,         \* history: the ids the table has assigned, in order
    lastOp,        \* store check: the last Storage call and its arguments
    lastOut,       \* store check: the records the last read returned
    lastOk,        \* store check: the bool the last delete_check returned
    rowsPrev,      \* store check: the table before the last Storage call
    thPc,          \* connection check: where each thread is in its Storage call
    thOp,          \* connection check: the Storage call of each thread
    thConn,        \* connection check: the connection the call of each thread holds
    thRaised,      \* connection check: the body of the with block raised
    openConns,     \* connection check: the connections that are open
    connSeq,       \* connection check: the connections made so far
    connLog,       \* connection check: the calls that ended, with their connection
    rnPc,          \* overlap check: where each of the two runs is
    rnItems,       \* overlap check: the chunk texts of each run
    rnIdx,         \* overlap check: the position of each run's dedup loop
    rnUnique,      \* overlap check: the items of each run that passed the dedup loop
    rnLeft         \* overlap check: the futures of each run not collected yet

storeVars == <<rows, nextId, clock, idLog>>

paramVars == <<save, storage, rulesPath, maxWorkers>>

dedupVars == <<items, dedupIdx, uniqueItems, skippedCount>>

poolVars == <<futures, cur, results>>

histVars == <<rows0, inserted, saveAttempts, failed, prevStored, rerun>>

scVars == <<scPc, scRules, scText, scOut>>

brVars == <<brPc, brText, brSize, brOut>>

apiVars == <<lastOp, lastOut, lastOk, rowsPrev>>

connVars == <<thPc, thOp, thConn, thRaised, openConns, connSeq, connLog>>

raceVars == <<rnPc, rnItems, rnIdx, rnUnique, rnLeft>>

vars == <<storeVars, pc, runNo, paramVars, dedupVars, poolVars, histVars, scVars, brVars, apiVars,
          connVars, raceVars>>

NotStored == [ok |-> FALSE, chunks |-> <<>>]

\* a new, empty database and no run started
PipelineInit ==
    /\ rows = <<>> /\ nextId = 1 /\ clock = 0 /\ idLog = <<>>
    /\ pc = "idle" /\ runNo = 0
    /\ save = FALSE /\ storage = "None" /\ rulesPath = "None" /\ maxWorkers = 1
    /\ items = <<>> /\ dedupIdx = 1 /\ uniqueItems = <<>> /\ skippedCount = 0
    /\ futures = <<>> /\ cur = 0 /\ results = <<>>
    /\ rows0 = <<>> /\ inserted = {} /\ saveAttempts = <<>> /\ failed = {}
    /\ prevStored = NotStored /\ rerun = FALSE

\* no call of the chunker on its own
BreakOff == brPc = "off" /\ brText = <<>> /\ brSize = 1 /\ brOut = [exc |-> "", chunks |-> <<>>]

\* no Storage call made from outside the pipeline
NoOp == [op |-> "none", uid |-> "", text |-> <<>>, query |-> <<>>,
         min_score |-> NoBound, max_score |-> NoBound, limit |-> 0]

ApiOff == lastOp = NoOp /\ lastOut = <<>> /\ lastOk = FALSE /\ rowsPrev = <<>>

\* no Storage call followed through its connection
ConnOff ==
    /\ thPc = <<>> /\ thOp = <<>> /\ thConn = <<>> /\ thRaised = <<>>
    /\ openConns = {} /\ connSeq = 0 /\ connLog = <<>>

\* no overlapping runs
RaceOff == rnPc = <<>> /\ rnItems = <<>> /\ rnIdx = <<>> /\ rnUnique = <<>> /\ rnLeft = <<>>

\* no call of the scorer on its own
ScoreOff == scPc = "off" /\ scRules = <<>> /\ scText = <<>> /\ scOut = <<>>

Init ==
    /\ PipelineInit
    /\ ScoreOff /\ BreakOff /\ ApiOff /\ ConnOff /\ RaceOff

\* the caller is between two calls of parallel_process_text
AtRest == pc \in {"idle", "done", "returned_empty", "returned_unscored", "raised"}

\* the rule list of the run
RunRules == RulesOf(LoadRules(rulesPath))

\* the chunk texts of all the texts, in order
BreakAll(texts, group_size) ==
    LET its == MakeItemsFromTexts(texts, group_size, 0)
    IN  [i \in 1..Len(its) |-> its[i].text]

\* mutant: the save flag is not consulted
PersistsIgnoringSave(sv, st) == st # "None"

\* if save and self.storage
Persists(sv, st) == sv /\ st # "None"

ResetRun ==
    /\ dedupIdx' = 1 /\ uniqueItems' = <<>> /\ skippedCount' = 0
    /\ futures' = <<>> /\ cur' = 0 /\ results' = <<>>
    /\ rows0' = rows /\ inserted' = {} /\ saveAttempts' = <<>> /\ failed' = {}

(***************************************************************************)
(* parallel_process_text up to the dedup loop: the early returns, the      *)
(* rules, the storage default, the chunking.                               *)
(***************************************************************************)
StartRun(texts, group_size, rp, sv, st, w) ==
    /\ AtRest /\ runNo < MaxRuns
    /\ runNo' = runNo + 1
    /\ save' = sv /\ rulesPath' = rp /\ maxWorkers' = w
    /\ ResetRun
    /\ UNCHANGED <<storeVars, scVars, brVars, apiVars, connVars, raceVars>>
    /\ IF texts = <<>>
       THEN /\ pc' = "returned_empty"
            /\ items' = <<>> /\ storage' = st
            /\ prevStored' = NotStored /\ rerun' = FALSE
       ELSE IF rp = "None"
       THEN /\ pc' = IF MakeItemsRaises(texts, group_size) THEN "raised" ELSE "returned_unscored"
            /\ items' = IF MakeItemsRaises(texts, group_size) THEN <<>>
                        ELSE MakeItemsFromTexts(texts, group_size, runNo + 1)
            /\ storage' = st
            /\ prevStored' = NotStored /\ rerun' = FALSE
       ELSE IF LoadRulesRaises(rp)
       THEN /\ pc' = "raised" /\ items' = <<>> /\ storage' = st
            /\ prevStored' = NotStored /\ rerun' = FALSE
       ELSE /\ storage' = IF sv /\ st = "None" THEN "store" ELSE st
            /\ IF MakeItemsRaises(texts, group_size)
               THEN /\ pc' = "raised" /\ items' = <<>>
                    /\ prevStored' = NotStored /\ rerun' = FALSE
               ELSE /\ pc' = "dedup"
                    /\ items' = MakeItemsFromTexts(texts, group_size, runNo + 1)
                    /\ prevStored' = prevStored
                    /\ rerun' = (sv /\ prevStored.ok
                                 /\ prevStored.chunks = BreakAll(texts, group_size))

\* mutant: a hash that was in the table before the last purge still counts
DedupStepRemembersPurged ==
    /\ pc = "dedup" /\ dedupIdx <= Len(items)
    /\ IF save /\ (\/ ExistsHash(rows, items[dedupIdx].text_hash)
                   \/ ExistsHash(rowsPrev, items[dedupIdx].text_hash))
       THEN skippedCount' = skippedCount + 1 /\ uniqueItems' = uniqueItems
       ELSE uniqueItems' = Append(uniqueItems, items[dedupIdx]) /\ skippedCount' = skippedCount
    /\ dedupIdx' = dedupIdx + 1
    /\ UNCHANGED <<storeVars, pc, runNo, paramVars, items, poolVars, histVars, scVars, brVars, apiVars, connVars, raceVars>>

\* one iteration of the dedup loop
DedupStep ==
    /\ pc = "dedup" /\ dedupIdx <= Len(items)
    /\ IF save /\ ExistsHash(rows, items[dedupIdx].text_hash)
       THEN skippedCount' = skippedCount + 1 /\ uniqueItems' = uniqueItems
       ELSE uniqueItems' = Append(uniqueItems, items[dedupIdx]) /\ skippedCount' = skippedCount
    /\ dedupIdx' = dedupIdx + 1
    /\ UNCHANGED <<storeVars, pc, runNo, paramVars, items, poolVars, histVars, scVars, brVars, apiVars, connVars, raceVars>>

(***************************************************************************)
(* Checker.run_checks                                                      *)
(***************************************************************************)
\* ex.submit for every item: the futures wait in the executor's queue
Submit ==
    /\ pc = "dedup" /\ dedupIdx > Len(items)
    /\ futures' = [i \in 1..Len(uniqueItems) |-> "queued"]
    /\ saveAttempts' = [i \in 1..Len(uniqueItems) |-> 0]
    /\ pc' = "collect"
    /\ UNCHANGED <<storeVars, runNo, paramVars, dedupVars, cur, results,
                   rows0, inserted, failed, prevStored, rerun, scVars, brVars, apiVars, connVars, raceVars>>

Running == {i \in 1..Len(futures) : futures[i] = "running"}

Queued == {i \in 1..Len(futures) : futures[i] = "queued"}

\* a pool thread takes the oldest queued work item; at most max_workers threads
WorkerStart(i) ==
    /\ pc \in {"collect", "save", "append"}
    /\ i \in Queued /\ \A j \in Queued : i <= j
    /\ Cardinality(Running) < maxWorkers
    /\ futures' = [futures EXCEPT ![i] = "running"]
    /\ UNCHANGED <<storeVars, pc, runNo, paramVars, dedupVars, cur, results, histVars, scVars, brVars, apiVars, connVars, raceVars>>

\* mutant: score_text never returns
WorkerFinishNever(i) ==
    /\ pc \in {"collect", "save", "append"}
    /\ i \in Running
    /\ FALSE
    /\ UNCHANGED vars

\* mutant: the pool thread appends its result to the shared list itself
WorkerFinishAppends(i) ==
    /\ pc \in {"collect", "save", "append"}
    /\ i \in Running
    /\ futures' = [futures EXCEPT ![i] = "finished"]
    /\ results' = Append(results, ScoreText(RunRules, uniqueItems[i]))
    /\ UNCHANGED <<storeVars, pc, runNo, paramVars, dedupVars, cur, histVars, scVars,
                   brVars, apiVars, connVars, raceVars>>

\* score_text returns or raises in the pool thread: the future is finished
WorkerFinish(i) ==
    /\ pc \in {"collect", "save", "append"}
    /\ i \in Running
    /\ futures' = [futures EXCEPT ![i] = "finished"]
    /\ UNCHANGED <<storeVars, pc, runNo, paramVars, dedupVars, cur, results, histVars, scVars, brVars, apiVars, connVars, raceVars>>

\* mutant: the workers add to one shared raw score instead of a local one
FutureResultSharedTotal(i) ==
    LET res == ScoreText(RunRules, uniqueItems[i])
    IN  [res EXCEPT !.raw_score = @ + Len(results) * ScoreUnit]

\* fut.result() of future i
FutureResult(i) == ScoreText(RunRules, uniqueItems[i])

\* mutant: the result is appended first and saved afterwards
CollectorFlowAppendFirst(step, persist) ==
    CASE step = "take" -> "append"
      [] step = "append" -> IF persist THEN "save" ELSE "collect"
      [] OTHER -> "collect"

\* the body of the as_completed loop after fut.result(): save, then append
CollectorFlow(step, persist) ==
    CASE step = "take" -> IF persist THEN "save" ELSE "append"
      [] step = "save" -> "append"
      [] OTHER -> "collect"

\* as_completed yields a finished future; fut.result() returns or raises
Collect(i) ==
    /\ pc = "collect"
    /\ i \in 1..Len(futures) /\ futures[i] = "finished"
    /\ futures' = [futures EXCEPT ![i] = "collected"]
    /\ IF FutureResult(i).exc # ""
       THEN /\ failed' = failed \cup {i}
            /\ UNCHANGED <<pc, cur>>
       ELSE /\ cur' = i
            /\ pc' = CollectorFlow("take", Persists(save, storage))
            /\ failed' = failed
    /\ UNCHANGED <<storeVars, runNo, paramVars, dedupVars, results,
                   rows0, inserted, saveAttempts, prevStored, rerun, scVars, brVars, apiVars, connVars, raceVars>>

\* what run_checks hands to save_check as details
DetailsArg(res) == JsonDumps(PyList(res.details))

\* storage.save_check inserts the row and commits
SaveOk(now) ==
    /\ pc = "save"
    /\ LET res == FutureResult(cur)
       IN  rows' = Append(rows, SaveCheckRow(NextRowId(rows, nextId), res.uid, res.text,
                                             res.score, DetailsArg(res), now))
    /\ nextId' = NextRowId(rows, nextId) + 1
    /\ idLog' = Append(idLog, NextRowId(rows, nextId))
    /\ clock' = now
    /\ inserted' = inserted \cup {NextRowId(rows, nextId)}
    /\ saveAttempts' = [saveAttempts EXCEPT ![cur] = @ + 1]
    /\ pc' = CollectorFlow("save", Persists(save, storage))
    /\ UNCHANGED <<runNo, paramVars, dedupVars, poolVars, rows0, failed, prevStored,
                   rerun, scVars, brVars, apiVars, connVars, raceVars>>

\* mutant: a failed save is tried again
SaveFailRetries ==
    /\ pc = "save"
    /\ saveAttempts' = [saveAttempts EXCEPT ![cur] = @ + 1]
    /\ UNCHANGED <<storeVars, pc, runNo, paramVars, dedupVars, poolVars,
                   rows0, inserted, failed, prevStored, rerun, scVars, brVars, apiVars, connVars, raceVars>>

\* storage.save_check raises (database locked, disk full): no row is written
SaveFail ==
    /\ pc = "save"
    /\ saveAttempts' = [saveAttempts EXCEPT ![cur] = @ + 1]
    /\ failed' = failed \cup {cur}
    /\ pc' = "collect"
    /\ UNCHANGED <<storeVars, runNo, paramVars, dedupVars, poolVars,
                   rows0, inserted, prevStored, rerun, scVars, brVars, apiVars, connVars, raceVars>>

\* mutant: the result is put in front of the list
AppendResultInFront ==
    /\ pc = "append"
    /\ results' = <<ScoreText(RunRules, uniqueItems[cur])>> \o results
    /\ pc' = "collect"
    /\ UNCHANGED <<storeVars, runNo, paramVars, dedupVars, futures, cur, histVars, scVars,
                   brVars, apiVars, connVars, raceVars>>

\* results.append(res)
AppendResult ==
    /\ pc = "append"
    /\ results' = Append(results, FutureResult(cur))
    /\ pc' = CollectorFlow("append", Persists(save, storage))
    /\ UNCHANGED <<storeVars, runNo, paramVars, dedupVars, futures, cur, histVars, scVars, brVars, apiVars, connVars, raceVars>>

\* mutant: the loop stops once every future is finished, collected or not
AllFinished == \A i \in 1..Len(futures) : futures[i] \in {"finished", "collected"}

\* as_completed is exhausted
AllCollected == \A i \in 1..Len(futures) : futures[i] = "collected"

\* the run stored every chunk of its text
StoredAll == save /\ Len(results) = Len(items) /\ Cardinality(inserted) = Len(items)

\* run_checks returns results, and parallel_process_text returns them
Return ==
    /\ pc = "collect" /\ AllCollected
    /\ pc' = "done"
    /\ prevStored' = IF StoredAll
                     THEN [ok |-> TRUE, chunks |-> [i \in 1..Len(items) |-> items[i].text]]
                     ELSE NotStored
    /\ UNCHANGED <<storeVars, runNo, paramVars, dedupVars, poolVars,
                   rows0, inserted, saveAttempts, failed, rerun, scVars, brVars, apiVars, connVars, raceVars>>

Next ==
    \/ \E texts \in TextInputs, g \in GroupSizes, rp \in RulePaths, sv \in BOOLEAN,
          st \in {"None", "store"}, w \in 1..MaxWorkers : StartRun(texts, g, rp, sv, st, w)
    \/ DedupStep
    \/ Submit
    \/ \E i \in 1..Len(futures) : WorkerStart(i)
    \/ \E i \in 1..Len(futures) : WorkerFinish(i)
    \/ \E i \in 1..Len(futures) : Collect(i)
    \/ \E now \in clock..MaxClock : SaveOk(now)
    \/ SaveFail
    \/ AppendResult
    \/ Return

Spec == Init /\ [][Next]_vars

(***************************************************************************)
(* One call of the pipeline run to its end.  The pool threads are          *)
(* scheduled, score_text is a loop over a finite rule list, and save_check *)
(* returns or raises within the connection timeout: a step of the run that *)
(* stays possible is eventually taken.                                     *)
(***************************************************************************)
\* a step of the call in progress
RunStep ==
    \/ DedupStep
    \/ Submit
    \/ \E i \in 1..Len(futures) : WorkerStart(i)
    \/ \E i \in 1..Len(futures) : WorkerFinish(i)
    \/ \E i \in 1..Len(futures) : Collect(i)
    \/ \E now \in clock..MaxClock : SaveOk(now)
    \/ SaveFail
    \/ AppendResult
    \/ Return

\* the first call on a new store
FirstRun ==
    /\ runNo = 0
    /\ \E texts \in TextInputs, g \in GroupSizes, rp \in RulePaths, sv \in BOOLEAN,
          st \in {"None", "store"}, w \in 1..MaxWorkers : StartRun(texts, g, rp, sv, st, w)

NextRun == FirstRun \/ RunStep

SpecRun == Init /\ [][NextRun]_vars /\ WF_vars(RunStep)

(***************************************************************************)
(* The scorer on its own: score_text applied to a rule set and an item.    *)
(***************************************************************************)
InitScore ==
    /\ PipelineInit
    /\ scPc = "ready" /\ scRules \in RuleSets /\ scText \in ScoreTexts /\ scOut = <<>>
    /\ BreakOff /\ ApiOff /\ ConnOff /\ RaceOff

ScoreStep ==
    /\ scPc = "ready"
    /\ scOut' = ScoreText(RulesOf(scRules), [uid |-> <<0, 0, 0>>, text |-> scText])
    /\ scPc' = "scored"
    /\ UNCHANGED <<storeVars, pc, runNo, paramVars, dedupVars, poolVars, histVars,
                   scRules, scText, brVars, apiVars, connVars, raceVars>>

NextScore == ScoreStep

SpecScore == InitScore /\ [][NextScore]_vars

(***************************************************************************)
(* The store on its own: calls of the Storage methods in any order.        *)
(***************************************************************************)
Uids == {"u1", "u2"}

\* the (uid, text, score) a caller saves: uids and texts repeat, the scores lie
\* below, on and above the bound the queries use
SaveInputs ==
    { [uid |-> "u1", text |-> <<"a">>, score |-> 4 * ScoreUnit],
      [uid |-> "u1", text |-> <<"a">>, score |-> 5 * ScoreUnit],
      [uid |-> "u2", text |-> <<"a">>, score |-> 6 * ScoreUnit],
      [uid |-> "u2", text |-> <<"!">>, score |-> 5 * ScoreUnit] }

ScoreBounds == {NoBound, Num(5 * ScoreUnit)}

Limits == 0..MaxLimit

InitStore ==
    /\ PipelineInit
    /\ ScoreOff /\ BreakOff /\ ApiOff /\ ConnOff /\ RaceOff

\* storage.save_check(uid, text, score, details) with details a list
SaveCheck(arg, now) ==
    /\ Len(idLog) < MaxSaves
    /\ rows' = Append(rows, SaveCheckRow(NextRowId(rows, nextId), arg.uid, arg.text, arg.score,
                                         PyList(<<>>), now))
    /\ nextId' = NextRowId(rows, nextId) + 1
    /\ idLog' = Append(idLog, NextRowId(rows, nextId))
    /\ clock' = now
    /\ lastOp' = [NoOp EXCEPT !.op = "save", !.uid = arg.uid, !.text = arg.text]
    /\ lastOut' = <<>> /\ lastOk' = FALSE /\ rowsPrev' = rows
    /\ UNCHANGED <<pc, runNo, paramVars, dedupVars, poolVars, histVars, scVars, brVars, connVars, raceVars>>

\* storage.query_checks(min_score, max_score, limit)
QueryChecks(min_score, max_score, limit) ==
    /\ \E out \in QueryChecksResults(rows, min_score, max_score, limit) : lastOut' = out
    /\ lastOp' = [NoOp EXCEPT !.op = "query", !.min_score = min_score,
                              !.max_score = max_score, !.limit = limit]
    /\ lastOk' = FALSE /\ rowsPrev' = rows
    /\ UNCHANGED <<storeVars, pc, runNo, paramVars, dedupVars, poolVars, histVars,
                   scVars, brVars, connVars, raceVars>>

\* storage.get_check_by_uid(uid)
GetCheckByUid(uid) ==
    /\ \E out \in GetCheckByUidResults(rows, uid) : lastOut' = out
    /\ lastOp' = [NoOp EXCEPT !.op = "get", !.uid = uid]
    /\ lastOk' = FALSE /\ rowsPrev' = rows
    /\ UNCHANGED <<storeVars, pc, runNo, paramVars, dedupVars, poolVars, histVars,
                   scVars, brVars, connVars, raceVars>>

\* storage.delete_check(uid): returns c.rowcount > 0
DeleteCheck(uid) ==
    /\ rows' = DeleteRows(rows, uid)
    /\ lastOk' = (Len(rows) - Len(DeleteRows(rows, uid)) > 0)
    /\ lastOp' = [NoOp EXCEPT !.op = "delete", !.uid = uid]
    /\ lastOut' = <<>> /\ rowsPrev' = rows
    /\ UNCHANGED <<nextId, clock, idLog, pc, runNo, paramVars, dedupVars, poolVars,
                   histVars, scVars, brVars, connVars, raceVars>>

\* storage.clear_all()
ClearAll ==
    /\ rows' = <<>>
    /\ lastOp' = [NoOp EXCEPT !.op = "clear"]
    /\ lastOut' = <<>> /\ lastOk' = FALSE /\ rowsPrev' = rows
    /\ UNCHANGED <<nextId, clock, idLog, pc, runNo, paramVars, dedupVars, poolVars,
                   histVars, scVars, brVars, connVars, raceVars>>

\* the characters of a uid of the store check
UidText(uid) == IF uid = "u1" THEN <<"u", "1">> ELSE <<"u", "2">>

\* qlower in txt or qlower in uid
SearchMatch(r, query) ==
    \/ Contains(LowerStr(r.text), LowerStr(query))
    \/ Contains(LowerStr(UidText(r.uid)), LowerStr(query))

\* the queries: none, a text in either case, a piece of a uid
Queries == {<<>>, <<"a">>, <<"A">>, <<"1">>}

\* search_in_storage(storage, query, limit): query_checks(limit=limit), then
\* the rows it returned are filtered
SearchInStorage(query, limit) ==
    /\ IF query = <<>>
       THEN lastOut' = <<>>
       ELSE \E got \in QueryChecksResults(rows, NoBound, NoBound, limit) :
                lastOut' = SelectSeq(got, LAMBDA r : SearchMatch(r, query))
    /\ lastOp' = [NoOp EXCEPT !.op = "search", !.query = query, !.limit = limit]
    /\ lastOk' = FALSE /\ rowsPrev' = rows
    /\ UNCHANGED <<storeVars, pc, runNo, paramVars, dedupVars, poolVars, histVars,
                   scVars, brVars, connVars, raceVars>>

NextStore ==
    \/ \E arg \in SaveInputs, now \in clock..MaxClock : SaveCheck(arg, now)
    \/ \E lo \in ScoreBounds, hi \in ScoreBounds, limit \in Limits : QueryChecks(lo, hi, limit)
    \/ \E uid \in Uids : GetCheckByUid(uid)
    \/ \E uid \in Uids : DeleteCheck(uid)
    \/ ClearAll
    \/ \E query \in Queries, limit \in Limits : SearchInStorage(query, limit)

SpecStore == InitStore /\ [][NextStore]_vars

(***************************************************************************)
(* Runs of the pipeline with save on, with the store purged between them:  *)
(* clear_all, or delete_check of the uid of a stored row.                  *)
(***************************************************************************)
\* parallel_process_text(texts, "rules.json", save=True, storage=store)
SavingRun ==
    \E texts \in TextInputs, g \in 1..MaxGroup, w \in 1..MaxWorkers :
        StartRun(texts, g, "rules.json", TRUE, "store", w)

\* storage.clear_all() between two runs
PurgeAll == AtRest /\ ClearAll

\* storage.delete_check(uid) between two runs, for the uid of a row
PurgeUid == AtRest /\ \E i \in 1..Len(rows) : DeleteCheck(rows[i].uid)

NextPurge == SavingRun \/ RunStep \/ PurgeAll \/ PurgeUid

SpecPurge == Init /\ [][NextPurge]_vars

(***************************************************************************)
(* The connection of a Storage call.  Every method has the shape           *)
(*     with closing(self._conn()) as conn: <statements>                    *)
(* Threads call the methods of one Storage concurrently; a call is         *)
(* followed from sqlite3.connect to the exit of the with block.            *)
(***************************************************************************)
ConnThreads == 1..MaxThreads

\* the calls made: every method of the store
ConnCalls ==
    {[op |-> "save_check", uid |-> arg.uid, text |-> arg.text, score |-> arg.score] :
        arg \in {x \in SaveInputs : x.uid = "u1"}}
    \cup {[op |-> "exists_hash", uid |-> "", text |-> <<"a">>, score |-> 0],
          [op |-> "query_checks", uid |-> "", text |-> <<>>, score |-> 0],
          [op |-> "get_check_by_uid", uid |-> "u1", text |-> <<>>, score |-> 0],
          [op |-> "delete_check", uid |-> "u1", text |-> <<>>, score |-> 0],
          [op |-> "clear_all", uid |-> "", text |-> <<>>, score |-> 0]}

NoCall == [op |-> "none", uid |-> "", text |-> <<>>, score |-> 0]

InitConn ==
    /\ PipelineInit
    /\ ScoreOff /\ BreakOff /\ ApiOff /\ RaceOff
    /\ thPc = [t \in ConnThreads |-> "idle"] /\ thOp = [t \in ConnThreads |-> NoCall]
    /\ thConn = [t \in ConnThreads |-> 0] /\ thRaised = [t \in ConnThreads |-> FALSE]
    /\ openConns = {} /\ connSeq = 0 /\ connLog = <<>>

connRest == <<pc, runNo, paramVars, dedupVars, poolVars, histVars, scVars, brVars, apiVars,
              raceVars>>

\* a thread calls a method of the store
OpBegin(t, call) ==
    /\ thPc[t] = "idle" /\ connSeq + Cardinality({u \in ConnThreads : thPc[u] = "call"}) < MaxConns
    /\ thPc' = [thPc EXCEPT ![t] = "call"]
    /\ thOp' = [thOp EXCEPT ![t] = call]
    /\ thRaised' = [thRaised EXCEPT ![t] = FALSE]
    /\ UNCHANGED <<storeVars, thConn, openConns, connSeq, connLog, connRest>>

\* self._conn(): sqlite3.connect returns a new connection
OpConnect(t) ==
    /\ thPc[t] = "call"
    /\ connSeq' = connSeq + 1
    /\ thConn' = [thConn EXCEPT ![t] = connSeq + 1]
    /\ openConns' = openConns \cup {connSeq + 1}
    /\ thPc' = [thPc EXCEPT ![t] = "with"]
    /\ UNCHANGED <<storeVars, thOp, thRaised, connLog, connRest>>

\* self._conn(): sqlite3.connect raises, the call ends without a connection
OpConnectFails(t) ==
    /\ thPc[t] = "call"
    /\ connSeq' = connSeq + 1
    /\ thPc' = [thPc EXCEPT ![t] = "idle"]
    /\ connLog' = Append(connLog, [op |-> thOp[t].op, conn |-> 0, raised |-> TRUE])
    /\ UNCHANGED <<storeVars, thOp, thConn, thRaised, openConns, connRest>>

\* the statements of the with block run to the end
OpExecute(t, now) ==
    /\ thPc[t] = "with"
    /\ thPc' = [thPc EXCEPT ![t] = "exit"]
    /\ CASE thOp[t].op = "save_check" ->
              /\ rows' = Append(rows, SaveCheckRow(NextRowId(rows, nextId), thOp[t].uid,
                                                   thOp[t].text, thOp[t].score, PyList(<<>>), now))
              /\ nextId' = NextRowId(rows, nextId) + 1
              /\ idLog' = Append(idLog, NextRowId(rows, nextId))
              /\ clock' = now
         [] thOp[t].op = "delete_check" ->
              /\ rows' = DeleteRows(rows, thOp[t].uid)
              /\ UNCHANGED <<nextId, idLog, clock>>
         [] thOp[t].op = "clear_all" ->
              /\ rows' = <<>>
              /\ UNCHANGED <<nextId, idLog, clock>>
         [] OTHER -> UNCHANGED storeVars
    /\ UNCHANGED <<thOp, thConn, thRaised, openConns, connSeq, connLog, connRest>>

\* a statement of the with block raises (the database is locked, the disk is
\* full): nothing is committed
OpRaise(t) ==
    /\ thPc[t] = "with"
    /\ thPc' = [thPc EXCEPT ![t] = "exit"]
    /\ thRaised' = [thRaised EXCEPT ![t] = TRUE]
    /\ UNCHANGED <<storeVars, thOp, thConn, openConns, connSeq, connLog, connRest>>

\* mutant: the connection is closed only when the block ends normally
ConnsAfterExitLeakOnRaise(open, c, raised) == IF raised THEN open ELSE open \ {c}

\* closing.__exit__: conn.close(), on the normal and on the exceptional way out
ConnsAfterExit(open, c, raised) == open \ {c}

\* the with block is left and the call returns or raises
OpExit(t) ==
    /\ thPc[t] = "exit"
    /\ openConns' = ConnsAfterExit(openConns, thConn[t], thRaised[t])
    /\ thPc' = [thPc EXCEPT ![t] = "idle"]
    /\ thConn' = [thConn EXCEPT ![t] = 0]
    /\ connLog' = Append(connLog, [op |-> thOp[t].op, conn |-> thConn[t],
                                   raised |-> thRaised[t]])
    /\ UNCHANGED <<storeVars, thOp, thRaised, connSeq, connRest>>

NextConn ==
    \/ \E t \in ConnThreads, call \in ConnCalls : OpBegin(t, call)
    \/ \E t \in ConnThreads : OpConnect(t)
    \/ \E t \in ConnThreads : OpConnectFails(t)
    \/ \E t \in ConnThreads, now \in clock..MaxClock : OpExecute(t, now)
    \/ \E t \in ConnThreads : OpRaise(t)
    \/ \E t \in ConnThreads : OpExit(t)

SpecConn == InitConn /\ [][NextConn]_vars

(***************************************************************************)
(* Two calls of parallel_process_text with save on, on one store, at the   *)
(* same time (two threads or two processes).  Each is followed through its *)
(* dedup loop and the saves of run_checks; each batch holds distinct       *)
(* chunk texts.                                                            *)
(***************************************************************************)
RaceRuns == 1..2

RaceTexts == {<<"a">>, <<"b">>}

\* batches of one or two different chunks
RaceBatches ==
    {b \in UNION {[1..n -> RaceTexts] : n \in 1..2} :
        \A i, j \in 1..Len(b) : i # j => b[i] # b[j]}

\* the item of a run for the chunk at a position of its batch
RaceItem(r, i) == [uid |-> <<1, i, r>>, text |-> rnItems[r][i]]

InitRace ==
    /\ PipelineInit
    /\ ScoreOff /\ BreakOff /\ ApiOff /\ ConnOff
    /\ rnPc = [r \in RaceRuns |-> "idle"] /\ rnItems = [r \in RaceRuns |-> <<>>]
    /\ rnIdx = [r \in RaceRuns |-> 1] /\ rnUnique = [r \in RaceRuns |-> <<>>]
    /\ rnLeft = [r \in RaceRuns |-> {}]

raceRest == <<pc, runNo, paramVars, dedupVars, poolVars, histVars, scVars, brVars, apiVars,
              connVars>>

\* parallel_process_text(texts, rules_path, save=True, storage) is called
RaceStart(r, batch) ==
    /\ rnPc[r] = "idle"
    /\ rnPc' = [rnPc EXCEPT ![r] = "dedup"]
    /\ rnItems' = [rnItems EXCEPT ![r] = batch]
    /\ UNCHANGED <<storeVars, rnIdx, rnUnique, rnLeft, raceRest>>

\* one turn of the dedup loop: storage.exists_hash of the item's hash
RaceDedup(r) ==
    /\ rnPc[r] = "dedup" /\ rnIdx[r] <= Len(rnItems[r])
    /\ rnUnique' = [rnUnique EXCEPT ![r] =
                       IF ExistsHash(rows, ComputeTextHash(rnItems[r][rnIdx[r]]))
                       THEN @ ELSE Append(@, rnIdx[r])]
    /\ rnIdx' = [rnIdx EXCEPT ![r] = @ + 1]
    /\ UNCHANGED <<storeVars, rnPc, rnItems, rnLeft, raceRest>>

\* the loop is over: run_checks on the items left (it returns at once on none)
RaceSubmit(r) ==
    /\ rnPc[r] = "dedup" /\ rnIdx[r] > Len(rnItems[r])
    /\ rnPc' = [rnPc EXCEPT ![r] = IF rnUnique[r] = <<>> THEN "done" ELSE "run"]
    /\ rnLeft' = [rnLeft EXCEPT ![r] = 1..Len(rnUnique[r])]
    /\ UNCHANGED <<storeVars, rnItems, rnIdx, rnUnique, raceRest>>

\* the collector takes a completed future and save_check inserts its row
RaceSave(r, k, now) ==
    /\ rnPc[r] = "run" /\ k \in rnLeft[r]
    /\ LET res == ScoreText(RulesOf(LoadRules("rules.json")), RaceItem(r, rnUnique[r][k]))
       IN  rows' = Append(rows, SaveCheckRow(NextRowId(rows, nextId), res.uid,
                                             rnItems[r][rnUnique[r][k]], res.score,
                                             PyList(res.details), now))
    /\ nextId' = NextRowId(rows, nextId) + 1
    /\ idLog' = Append(idLog, NextRowId(rows, nextId))
    /\ clock' = now
    /\ rnLeft' = [rnLeft EXCEPT ![r] = @ \ {k}]
    /\ UNCHANGED <<rnPc, rnItems, rnIdx, rnUnique, raceRest>>

\* save_check raises: the item is dropped
RaceSaveFail(r, k) ==
    /\ rnPc[r] = "run" /\ k \in rnLeft[r]
    /\ rnLeft' = [rnLeft EXCEPT ![r] = @ \ {k}]
    /\ UNCHANGED <<storeVars, rnPc, rnItems, rnIdx, rnUnique, raceRest>>

\* run_checks returns
RaceReturn(r) ==
    /\ rnPc[r] = "run" /\ rnLeft[r] = {}
    /\ rnPc' = [rnPc EXCEPT ![r] = "done"]
    /\ UNCHANGED <<storeVars, rnItems, rnIdx, rnUnique, rnLeft, raceRest>>

NextRace ==
    \/ \E r \in RaceRuns, batch \in RaceBatches : RaceStart(r, batch)
    \/ \E r \in RaceRuns : RaceDedup(r)
    \/ \E r \in RaceRuns : RaceSubmit(r)
    \/ \E r \in RaceRuns, k \in 1..2, now \in clock..MaxClock : RaceSave(r, k, now)
    \/ \E r \in RaceRuns, k \in 1..2 : RaceSaveFail(r, k)
    \/ \E r \in RaceRuns : RaceReturn(r)

SpecRace == InitRace /\ [][NextRace]_vars

(***************************************************************************)
(* The chunker on its own: break_text_into_groups applied to a raw text    *)
(* and a group_size.                                                       *)
(***************************************************************************)
\* words of one and of two characters
BreakTokens == {<<"a">>, <<"b", "!">>}

\* raw texts of up to MaxBreakWords words, tidy or with stray whitespace; the
\* text without words is "" or whitespace only
BreakTexts ==
    {RawText(ws, m) : ws \in UNION {[1..n -> BreakTokens] : n \in 0..MaxBreakWords},
                      m \in BOOLEAN}

BreakSizes == (-2)..MaxBreakGroup

InitBreak ==
    /\ PipelineInit
    /\ ScoreOff /\ ApiOff /\ ConnOff /\ RaceOff
    /\ brPc = "ready" /\ brText \in BreakTexts /\ brSize \in BreakSizes
    /\ brOut = [exc |-> "", chunks |-> <<>>]

BreakStep ==
    /\ brPc = "ready"
    /\ brOut' = IF BreakRaises(brText, brSize)
                 THEN [exc |-> "ValueError: range() arg 3 must not be zero", chunks |-> <<>>]
                 ELSE [exc |-> "", chunks |-> BreakTextIntoGroups(brText, brSize)]
    /\ brPc' = "done"
    /\ UNCHANGED <<storeVars, pc, runNo, paramVars, dedupVars, poolVars, histVars,
                   scVars, brText, brSize, apiVars, connVars, raceVars>>

NextBreak == BreakStep

SpecBreak == InitBreak /\ [][NextBreak]_vars


(***************************************************************************)
(* Properties.                                                             *)
(***************************************************************************)
\* run_checks has been entered (the futures are submitted)
InRunChecks == pc \in {"collect", "save", "append", "done"}

\* positions in rows of the rows the current run inserted
RowsInserted == {r \in 1..Len(rows) : rows[r].id \in inserted}

ResultUids == {results[k].uid : k \in 1..Len(results)}

RowsWithHash(h) == {r \in 1..Len(rows) : rows[r].text_hash = h}

\* the hash was in the table when the run started
StoredAtStart(h) == \E r \in 1..Len(rows0) : rows0[r].text_hash = h

\* C1: after any sequence of save-enabled pipeline runs on one store, the store
\* holds at most one row per content hash, also when one batch holds two chunks
\* with identical text.  (The store of Spec is written by pipeline runs only.)
C1_AtMostOneRowPerHash ==
    \A i, j \in 1..Len(rows) : rows[i].text_hash = rows[j].text_hash => i = j

\* C2: when a save-enabled run stored every chunk of a text, running the
\* pipeline again on the same chunks with save inserts no row, returns an empty
\* list and counts every chunk as skipped; a one-chunk text then has exactly one
\* row in the store.
C2_RerunInsertsNothing ==
    rerun =>
        /\ inserted = {} /\ results = <<>> /\ rows = rows0
        /\ InRunChecks => skippedCount = Len(items) /\ futures = <<>>
        /\ (pc = "done" /\ Len(items) = 1) =>
                Cardinality(RowsWithHash(items[1].text_hash)) = 1

C2_Witness ==
    pc = "done" /\ rerun /\ Len(items) = 1 /\ skippedCount = 1 /\ results = <<>>

C4_OneResultPerItem ==
    (pc = "done" /\ failed = {}) =>
        /\ Len(results) = Len(uniqueItems)
        /\ \A i \in 1..Len(uniqueItems) :
              \E k \in 1..Len(results) :
                 /\ results[k].uid = uniqueItems[i].uid
                 /\ results[k].text = uniqueItems[i].text
                 /\ \A m \in 1..Len(results) : results[m].uid = uniqueItems[i].uid => m = k

\* two items, returned in the reverse of their submission order
C4_Witness ==
    /\ pc = "done" /\ failed = {} /\ Len(uniqueItems) = 2 /\ Len(results) = 2
    /\ results[1].uid = uniqueItems[2].uid /\ results[2].uid = uniqueItems[1].uid

\* C5: an item whose scoring or save fails is absent from the results, its save
\* is attempted at most once, run_checks does not raise, and every other item is
\* still scored, saved (with persistence) and returned.
C5_FailureIsolated ==
    /\ \A i \in DOMAIN saveAttempts : saveAttempts[i] <= 1
    /\ failed # {} => pc # "raised"
    /\ \A i \in failed : uniqueItems[i].uid \notin ResultUids
    /\ pc = "done" =>
         \A i \in 1..Len(uniqueItems) :
            /\ futures[i] = "collected"
            /\ i \notin failed =>
                 /\ uniqueItems[i].uid \in ResultUids
                 /\ save => \E r \in RowsInserted : rows[r].uid = uniqueItems[i].uid

\* one save failed, the sibling was saved and returned
C5_Witness ==
    /\ pc = "done" /\ save /\ Cardinality(failed) = 1 /\ Len(results) = 1
    /\ \E i \in failed : saveAttempts[i] = 1
    /\ Cardinality(inserted) = 1

\* C6: for every rule set load_rules accepts and every item, score_text returns
\* a Check Result; a rule whose evaluation throws yields a detail with score 0
\* and reason error:<message>; no rule drops the chunk.
C6_NoRuleDropsChunk ==
    scPc = "scored" =>
        /\ scOut.exc = ""
        /\ \A k \in 1..Len(scRules) :
              EvaluateRule(RulePool[scRules[k]], scText).exc # "" =>
                 \E d \in 1..Len(scOut.details) :
                    /\ scOut.details[d].score = 0
                    /\ scOut.details[d].reason[1] = "error"

\* C7: with persistence, every result in the result list has its row in the
\* store at every point of the call, and at most one row written by the call
\* belongs to a result not yet in the list.
C7_SavedWhenCollected ==
    save =>
        /\ \A k \in 1..Len(results) : \E r \in RowsInserted : rows[r].uid = results[k].uid
        /\ Cardinality({r \in RowsInserted : rows[r].uid \notin ResultUids}) <= 1

\* mid-batch: one result saved and listed, the next saved and not yet listed
C7_Witness ==
    /\ pc = "append" /\ save /\ Len(results) = 1 /\ Cardinality(inserted) = 2
    /\ \E r \in RowsInserted : rows[r].uid \notin ResultUids

C9_DetailsReadBackAsList ==
    \A r \in RowsInserted :
        \A i \in 1..Len(uniqueItems) :
            uniqueItems[i].uid = rows[r].uid =>
                LET d == RowRecord(rows[r]).details
                IN  d.t = "list" /\ d.v = FutureResult(i).details

\* C10 as stated: for every chunk whose word_count is 0 and every rule set, the
\* returned score equals raw_score exactly.
C10_ScoreEqualsRawExactly ==
    (scPc = "scored" /\ scOut.exc = "" /\ scOut.word_count = 0) =>
        scOut.score = scOut.raw_score

\* C10 amended: for every chunk whose word_count is 0, the returned score is
\* raw_score rounded to 3 decimal places (a multiple of 0.001 within 0.0005 of
\* raw_score), so it equals raw_score when raw_score has at most 3 decimals.
C10_ScoreIsRawRounded ==
    (scPc = "scored" /\ scOut.exc = "" /\ scOut.word_count = 0) =>
        /\ scOut.score % 10 = 0
        /\ 2 * (scOut.score - scOut.raw_score) <= 10
        /\ 2 * (scOut.raw_score - scOut.score) <= 10
        /\ scOut.raw_score % 10 = 0 => scOut.score = scOut.raw_score

C10_Witness ==
    /\ scPc = "scored" /\ scOut.exc = "" /\ scOut.word_count = 0
    /\ scOut.raw_score % 10 # 0 /\ scOut.score # scOut.raw_score

\* C11: for every chunk with word_count > 0 the score is the multiple of 0.001
\* nearest to raw_score * 100 / word_count (raw_score 10 over 50 words gives
\* 20.0); with word_count 0 nothing is divided: score_text fails only on a rule
\* that is not an object.
C11_ScorePer100Words ==
    /\ Normalize(10 * ScoreUnit, 50) = 20 * ScoreUnit
    /\ (scPc = "scored" /\ scOut.exc = "" /\ scOut.word_count > 0) =>
          /\ scOut.score % 10 = 0
          /\ 2 * (scOut.score * scOut.word_count - 100 * scOut.raw_score)
                <= 10 * scOut.word_count
          /\ 2 * (100 * scOut.raw_score - scOut.score * scOut.word_count)
                <= 10 * scOut.word_count
    /\ (scPc = "scored" /\ scOut.word_count = 0 /\ scOut.exc # "") =>
          \E k \in 1..Len(scRules) : ~IsDict(RulePool[scRules[k]])

\* three words, a quotient that is not a multiple of 0.001
C11_Witness ==
    /\ scPc = "scored" /\ scOut.exc = "" /\ scOut.word_count = 3
    /\ (100 * scOut.raw_score) % (10 * scOut.word_count) # 0
    /\ scOut.score # 0

\* the rules of the checked set that add a detail for the checked text, in order
ContributingRules ==
    LET adds(k) == LET ev == EvaluateRule(RulePool[scRules[k]], scText)
                   IN  ev.exc # "" \/ ev.s # 0
    IN  SelectSeq([k \in 1..Len(scRules) |-> k], adds)

RECURSIVE SumScores(_)
SumScores(details) ==
    IF details = <<>> THEN 0 ELSE details[1].score + SumScores(Tail(details))

RECURSIVE WordsOfChunks(_)
WordsOfChunks(chunks) ==
    IF chunks = <<>> THEN <<>> ELSE SplitWs(chunks[1]) \o WordsOfChunks(Tail(chunks))

\* C13: for group_size N > 0, break_text_into_groups returns ceil(words / N)
\* chunks; every chunk but the last has exactly N words, the last has 1 to N;
\* the words of the chunks in order are the whitespace-split words of the
\* input; empty or whitespace-only input gives no chunk.
C13_ChunksPartitionWords ==
    (brPc = "done" /\ brSize > 0) =>
        LET words == SplitWs(brText)
            chunks == brOut.chunks
            m == Len(chunks)
        IN  /\ brOut.exc = ""
            /\ IF words = <<>> THEN m = 0
               ELSE m * brSize >= Len(words) /\ (m - 1) * brSize < Len(words)
            /\ \A k \in 1..(m - 1) : Len(SplitWs(chunks[k])) = brSize
            /\ m > 0 => Len(SplitWs(chunks[m])) \in 1..brSize
            /\ WordsOfChunks(chunks) = words
            /\ words = <<>> => chunks = <<>>

\* a messy text of four words in groups of three: a full chunk and a remainder
C13_Witness ==
    /\ brPc = "done" /\ brSize = 3 /\ Len(SplitWs(brText)) = 4
    /\ brText[1] = "\n"
    /\ Len(brOut.chunks) = 2 /\ Len(SplitWs(brOut.chunks[2])) = 1

\* C14: for non-empty text and group_size <= 0, break_text_into_groups either
\* raises or returns exactly one chunk holding all the words.
C14_NonPositiveGroupSize ==
    (brPc = "done" /\ brSize <= 0 /\ SplitWs(brText) # <<>>) =>
        \/ brOut.exc # ""
        \/ Len(brOut.chunks) = 1 /\ SplitWs(brOut.chunks[1]) = SplitWs(brText)

\* C15: when the rules file is missing, is not JSON or holds no JSON array,
\* parallel_process_text on non-empty input raises before any dedup lookup,
\* before any chunk is scored and before any row is written.
C15_LoadErrorAbortsRun ==
    (rulesPath \in {"missing.json", "broken.json", "object.json"} /\ pc # "returned_empty") =>
        /\ pc = "raised"
        /\ rows = rows0 /\ inserted = {}
        /\ dedupIdx = 1 /\ skippedCount = 0 /\ uniqueItems = <<>>
        /\ futures = <<>> /\ results = <<>>

\* a save-enabled run on a store that holds rows, given a file with a JSON object
C15_Witness ==
    /\ pc = "raised" /\ rulesPath = "object.json" /\ save /\ storage = "store"
    /\ rows # <<>> /\ rows = rows0

\* score_text on the rule set of the run and the text alone
ReferenceScore(text) == ScoreText(RunRules, [uid |-> <<0, 0, 0>>, text |-> text])

NewestRow == rows[Len(rows)]

\* C16: save_check inserts exactly one row per call, with an id greater than
\* every id assigned before and text_hash = compute_text_hash(text), and leaves
\* every existing row unchanged, also when the uid or the text is stored already.
C16_SaveAppendsOneRow ==
    /\ \A i, j \in 1..Len(rows) : rows[i].id = rows[j].id => i = j
    /\ lastOp.op = "save" =>
          /\ Len(rows) = Len(rowsPrev) + 1
          /\ \A i \in 1..Len(rowsPrev) : rows[i] = rowsPrev[i]
          /\ NewestRow.uid = lastOp.uid /\ NewestRow.text = lastOp.text
          /\ NewestRow.text_hash = ComputeTextHash(lastOp.text)
          /\ NewestRow.id = idLog[Len(idLog)]
          /\ \A k \in 1..(Len(idLog) - 1) : idLog[k] < NewestRow.id

\* a uid and text saved again while stored, after a delete freed the latest id
C16_Witness ==
    /\ lastOp.op = "save" /\ Len(idLog) > Len(rows)
    /\ \E i \in 1..Len(rowsPrev) :
          rowsPrev[i].uid = lastOp.uid /\ rowsPrev[i].text = lastOp.text
    /\ \A i \in 1..Len(rowsPrev) : rowsPrev[i].id < idLog[Len(idLog) - 1]

\* C17: query_checks returns only rows with min_score <= score <= max_score,
\* at most limit of them, newest first: in descending insertion order, and no
\* matching row left out is newer than a listed one, also for rows inserted
\* within one timestamp tick.
C17_QueryNewestFirst ==
    lastOp.op = "query" =>
        /\ Len(lastOut) <= lastOp.limit
        /\ \A k \in 1..Len(lastOut) :
              /\ lastOp.min_score.t # "None" => lastOut[k].score >= lastOp.min_score.n
              /\ lastOp.max_score.t # "None" => lastOut[k].score <= lastOp.max_score.n
        /\ \A a, b \in 1..Len(lastOut) : a < b => lastOut[a].id > lastOut[b].id
        /\ \A i \in 1..Len(rows) :
              (/\ Matches(rows[i], lastOp.min_score, lastOp.max_score)
               /\ \A k \in 1..Len(lastOut) : lastOut[k].id # rows[i].id)
              => \A k \in 1..Len(lastOut) : rows[i].id < lastOut[k].id

\* C18: get_check_by_uid(uid) returns the most recently inserted row of this
\* uid, and none exactly when no row has this uid.
C18_GetReturnsLatestOfUid ==
    lastOp.op = "get" =>
        LET U == {i \in 1..Len(rows) : rows[i].uid = lastOp.uid}
        IN  IF U = {} THEN lastOut = <<>>
            ELSE /\ Len(lastOut) = 1
                 /\ lastOut[1].uid = lastOp.uid
                 /\ \A i \in U : rows[i].id <= lastOut[1].id

\* C19: delete_check(uid) removes every row of this uid and no other row, and
\* returns true exactly when a row was removed; clear_all removes every row.
C19_DeleteRemovesRowsOfUid ==
    /\ lastOp.op = "delete" =>
          /\ \A i \in 1..Len(rows) : rows[i].uid # lastOp.uid
          /\ \A i \in 1..Len(rows) : \E j \in 1..Len(rowsPrev) : rowsPrev[j] = rows[i]
          /\ \A j \in 1..Len(rowsPrev) :
                rowsPrev[j].uid # lastOp.uid => \E i \in 1..Len(rows) : rows[i] = rowsPrev[j]
          /\ \A a, b \in 1..Len(rows) : a < b => rows[a].id < rows[b].id
          /\ lastOk <=> \E j \in 1..Len(rowsPrev) : rowsPrev[j].uid = lastOp.uid
    /\ lastOp.op = "clear" => rows = <<>>

\* two rows of the uid removed, a row of another uid kept
C19_Witness ==
    /\ lastOp.op = "delete" /\ lastOk
    /\ Len(rowsPrev) = 3 /\ Len(rows) = 1 /\ rows[1].uid # lastOp.uid

\* the nine rule types evaluate_rule knows
KnownTypes ==
    {"keyword_any", "uppercase_ratio", "length_min", "regex_match", "contains_phrase",
     "word_count_min", "starts_with", "ends_with", "not_contains"}

\* the rules of the checked set as rule objects
CheckedRule(k) == RulePool[scRules[k]]

\* C21: a rule of unknown type contributes 0 to every chunk and adds no detail,
\* and its evaluation never raises, whatever its other fields hold.
C21_UnknownTypeNeverRaises ==
    (scPc = "scored" /\ scOut.exc = "") =>
        \A k \in 1..Len(scRules) :
            (IsDict(CheckedRule(k)) /\ Get(CheckedRule(k), "type", "None") \notin KnownTypes) =>
                /\ EvaluateRule(CheckedRule(k), scText).exc = ""
                /\ EvaluateRule(CheckedRule(k), scText).s = 0
                /\ \A d \in 1..Len(scOut.details) :
                      scOut.details[d].rule_id # RuleId(CheckedRule(k))

\* the positions of the keywords of a rule that occur in the text, any case
MatchingKeywords(rule, text) ==
    {j \in 1..Len(rule.keywords) :
        rule.keywords[j] # <<>> /\ Contains(LowerStr(text), LowerStr(rule.keywords[j]))}

\* the details a rule id has in the result
DetailsOf(id) == {d \in 1..Len(scOut.details) : scOut.details[d].rule_id = id}

\* C22: a keyword_any rule fires at most once per chunk: when several keywords
\* occur in the text the contribution is the rule's score once and the reason
\* names the first matching keyword in list order; with no matching keyword it
\* returns (0, None).
C22_KeywordFiresOnce ==
    (scPc = "scored" /\ scOut.exc = "") =>
        \A k \in 1..Len(scRules) :
            (scRules[k] = 1 /\ \A m \in 1..Len(scRules) : scRules[m] = 1 => m = k) =>
                LET rule == CheckedRule(k)
                    M == MatchingKeywords(rule, scText)
                    ev == EvaluateRule(rule, scText)
                IN  IF M = {}
                    THEN ev.exc = "" /\ ev.s = 0 /\ ev.reason = NoReason /\ DetailsOf("kw") = {}
                    ELSE /\ ev.exc = "" /\ ev.s = rule.score.n
                         /\ Cardinality(DetailsOf("kw")) = 1
                         /\ \A d \in DetailsOf("kw") :
                               /\ scOut.details[d].score = rule.score.n
                               /\ scOut.details[d].reason[1] = "found_keyword"
                               /\ \E j \in M :
                                     /\ \A i \in M : j <= i
                                     /\ scOut.details[d].reason[2] = rule.keywords[j]

\* both keywords occur, the second of the list earlier in the text: one detail,
\* naming the first of the list
C22_Witness ==
    /\ scPc = "scored" /\ scOut.exc = "" /\ scRules = <<1>>
    /\ scText = <<"a", "!", "B">>
    /\ Len(scOut.details) = 1 /\ scOut.details[1].reason = <<"found_keyword", <<"B">>>>
    /\ scOut.raw_score = 2 * ScoreUnit

\* a rule object with a non-numeric threshold, min_chars, min_words or score
MalformedParam(rule) ==
    /\ IsDict(rule)
    /\ \E key \in {"threshold", "min_chars", "min_words", "score"} \cap DOMAIN rule :
          rule[key].t = "str"

\* C26: a rule with a malformed parameter never adds a non-zero contribution:
\* its evaluation error reaches the scorer and is recorded as a zero-score
\* detail whose reason carries the error message.
C26_MalformedParamIsErrorDetail ==
    (scPc = "scored" /\ scOut.exc = "") =>
        \A k \in 1..Len(scRules) :
            MalformedParam(CheckedRule(k)) =>
                /\ EvaluateRule(CheckedRule(k), scText).exc # ""
                /\ \E d \in 1..Len(scOut.details) :
                      /\ scOut.details[d].rule_id = RuleId(CheckedRule(k))
                      /\ scOut.details[d].score = 0
                      /\ scOut.details[d].reason[1] = "error"

\* C23: run_checks terminates, and when it returns every submitted item has
\* finished scoring and was collected: it is in the returned list or was
\* excluded as failed; none is pending, running or uncollected.
C23_RunChecksTerminates ==
    /\ [](pc = "done" =>
            \A i \in 1..Len(futures) :
                /\ futures[i] = "collected"
                /\ i \in failed <=> uniqueItems[i].uid \notin ResultUids)
    /\ (pc \in {"collect", "save", "append"}) ~> (pc = "done")

\* one worker, two items, one of them excluded after its save failed
C23_Witness ==
    /\ pc = "done" /\ maxWorkers = 1 /\ Len(futures) = 2
    /\ Cardinality(failed) = 1 /\ Len(results) = 1

\* C28: within one run_checks call rows are written and results appended only
\* by the collecting thread, in its save and append steps, never by a step of
\* a pool worker, and only for the one future it is handling: at most one save
\* of the call is in progress at any time.
C28_OnlyCollectorWrites ==
    [][ /\ rows' # rows =>
              /\ pc = "save" /\ futures' = futures
              /\ futures[cur] = "collected" /\ Len(rows') = Len(rows) + 1
        /\ Len(results') > Len(results) =>
              /\ pc = "append" /\ futures' = futures
              /\ futures[cur] = "collected" /\ Len(results') = Len(results) + 1
        /\ (futures' # futures /\ pc \in {"collect", "save", "append"}) =>
              rows' = rows /\ results' = results ]_vars

\* the collector is saving while a pool worker is still scoring
C28_Witness ==
    /\ pc = "save" /\ \E i \in 1..Len(futures) : futures[i] = "running"
    /\ Len(results) = 0

\* the id of the row a run inserted for a uid
RowIdOf(uid) == {rows[r].id : r \in {x \in RowsInserted : rows[x].uid = uid}}

\* C29: with persistence the rows a run_checks call inserts are in the same
\* relative order by id as their results in the returned list, which may
\* differ from the order of the batch.
C29_RowOrderIsResultOrder ==
    (save /\ InRunChecks) =>
        \A k, m \in 1..Len(results) :
            k < m => /\ RowIdOf(results[k].uid) # {} /\ RowIdOf(results[m].uid) # {}
                     /\ \A a \in RowIdOf(results[k].uid), b \in RowIdOf(results[m].uid) : a < b

\* two items stored and returned in the reverse of the batch order
C29_Witness ==
    /\ pc = "done" /\ save /\ Len(results) = 2 /\ Cardinality(inserted) = 2
    /\ results[1].uid = uniqueItems[2].uid /\ results[2].uid = uniqueItems[1].uid
    /\ rows[Len(rows)].uid = uniqueItems[1].uid

\* C24: every store operation opens a connection of its own and closes it
\* before it returns or raises: the open connections are exactly those of the
\* calls inside their with block, no two calls hold or held the same one, and
\* with no call in progress none is open.
C24_ConnectionPerOperation ==
    /\ openConns = {thConn[t] : t \in {u \in DOMAIN thPc : thPc[u] \in {"with", "exit"}}}
    /\ \A t, u \in DOMAIN thPc :
          (t # u /\ thPc[t] \in {"with", "exit"} /\ thPc[u] \in {"with", "exit"})
              => thConn[t] # thConn[u]
    /\ \A i, j \in 1..Len(connLog) :
          (i # j /\ connLog[i].conn # 0) => connLog[i].conn # connLog[j].conn
    /\ \A i \in 1..Len(connLog), t \in DOMAIN thPc :
          (connLog[i].conn # 0) => connLog[i].conn # thConn[t]
    /\ (\A t \in DOMAIN thPc : thPc[t] = "idle") => openConns = {}

\* three calls have ended, one of them raised inside its with block, and no
\* connection is open
C24_Witness ==
    /\ Len(connLog) = 3 /\ \A t \in DOMAIN thPc : thPc[t] = "idle"
    /\ \E i \in 1..3 : connLog[i].raised /\ connLog[i].conn # 0
    /\ \E i \in 1..3 : ~connLog[i].raised /\ connLog[i].op = "save_check"
    /\ openConns = {}

\* C25: two overlapping runs with save on, whose batches both hold a text
\* that is not stored, insert at most one row for the hash of that text.
C25_OverlapInsertsAtMostOneRow ==
    \A t \in RaceTexts : Cardinality(RowsWithHash(ComputeTextHash(t))) <= 1

\* C27: search_in_storage with a non-empty query returns only stored rows
\* whose text or uid contains the query without regard to case, at most limit
\* of them, and when it returns fewer than limit no stored matching row is
\* missing from the result.
C27_SearchFindsAllWithinLimit ==
    (lastOp.op = "search" /\ lastOp.query # <<>>) =>
        /\ \A k \in 1..Len(lastOut) :
              /\ SearchMatch(lastOut[k], lastOp.query)
              /\ \E i \in 1..Len(rows) : RowRecord(rows[i]) = lastOut[k]
        /\ Len(lastOut) <= lastOp.limit
        /\ Len(lastOut) < lastOp.limit =>
              \A i \in 1..Len(rows) :
                  SearchMatch(rows[i], lastOp.query) =>
                      \E k \in 1..Len(lastOut) : lastOut[k].id = rows[i].id

\* every chunk whose hash no row carried when the run started was scored and,
\* unless its save failed, is in the results and in a row the run inserted
ReturnedAndStored ==
        \A i \in 1..Len(items) :
            ~StoredAtStart(items[i].text_hash) =>
                \E k \in 1..Len(uniqueItems) :
                    /\ uniqueItems[k].uid = items[i].uid
                    /\ futures[k] = "collected"
                    /\ k \notin failed =>
                          /\ items[i].uid \in ResultUids
                          /\ \E r \in RowsInserted :
                                /\ rows[r].uid = items[i].uid
                                /\ rows[r].text_hash = items[i].text_hash

\* C30: deduplication follows what the store holds now: when a save-enabled
\* run returns, every chunk whose hash no row carried at its start, also one
\* stored by an earlier run and removed by clear_all or delete_check since,
\* has been scored and, unless its save failed, returned and stored again.
C30_DedupFollowsCurrentStore ==
    [][(pc # "done" /\ pc' = "done" /\ save') => ReturnedAndStored']_vars

\* the second run stored again a chunk that the first run had stored and a
\* delete_check removed in between
C30_Witness ==
    /\ pc = "done" /\ save /\ runNo = 2 /\ lastOp.op = "delete"
    /\ \E i \in 1..Len(items) :
          /\ ExistsHash(rowsPrev, items[i].text_hash)
          /\ ~StoredAtStart(items[i].text_hash)
          /\ items[i].uid \in ResultUids
          /\ \E r \in RowsInserted : rows[r].text_hash = items[i].text_hash


=============================================================================
